---------------------------- MODULE Spec2Model ----------------------------
(***************************************************************************)
(* Model of centermask/demo/predictor_batch_4.py (class COCODemo): the     *)
(* selection of detections by per-class threshold, the overlay renderers,  *)
(* the mask montage and the batch driver run_on_opencv_image.              *)
(*                                                                         *)
(* Conventions.  Python sequences are 0-based, TLA+ sequences 1-based: a   *)
(* Python position i is the TLA+ position i+1.  Scores and thresholds are  *)
(* small integers standing for real numbers (only their order matters).   *)
(* A BoxList is a record [bbox, extra_fields]: bbox is the sequence of     *)
(* boxes and extra_fields maps a field name to a sequence of the same      *)
(* length.  A box is an opaque token.                                      *)
(***************************************************************************)
EXTENDS Integers, Sequences, FiniteSets, TLC

VARIABLES
    confidence_threshold, \* self.confidence_threshold (constructor argument)
    flags,                \* show_mask_heatmaps, MASK_ON, KEYPOINT_ON, display_text, display_score
    pc,                   \* "idle" | "loop" | "returned" | "raised"
    call,                 \* the method invoked and its arguments
    ret,                  \* the value returned, or the exception raised
    heap,                 \* image buffers (numpy arrays), by address
    frame                 \* locals of run_on_opencv_image while it loops

vars == <<confidence_threshold, flags, pc, call, ret, heap, frame>>

---------------------------------------------------------------------------
(* Bounds of the model.                                                    *)

MaxDet == 2        \* detections per DetectionSet handed to the selector
MaxScore == 2      \* scores range over 1..MaxScore

MaxInst == 3       \* detections per BoxList handed to a renderer
NumColors == 2     \* entries of the color table (fewer than MaxInst)
MaskH == 2         \* height of a mask, in pixels
MaskW == 4         \* width of a mask, in pixels
MaxMasks == 5      \* masks handed to the montage (more than masks_per_dim^2)
MaxBatch == 2      \* images per call of run_on_opencv_image

\* the default of the constructor argument masks_per_dim
masks_per_dim == 2

Scores == 1..MaxScore
\* the threshold tables tried: one entry per class, for two classes; 0 is
\* below every score and 1 equals the lowest score
ThresholdTables == [{1, 2} -> {0, 1}]
\* labels: 0 is the background, 1 and 2 have a threshold entry, 3 has none
Labels == {0, 1, 2, 3}

---------------------------------------------------------------------------
(* Sequences and BoxList.                                                  *)

Range(s) == {s[k] : k \in 1..Len(s)}

Injective(f) == \A a, b \in DOMAIN f : f[a] = f[b] => a = b

\* the positions of 1..n that satisfy Test, in increasing order
Positions(n, Test(_)) == SelectSeq([k \in 1..n |-> k], Test)

has_field(predictions, f) == f \in DOMAIN predictions.extra_fields
get_field(predictions, f) == predictions.extra_fields[f]
NumBoxes(predictions) == Len(predictions.bbox)

\* BoxList.__getitem__ with an index tensor: rows idx[1], idx[2], ... of bbox
\* and of every extra field
Index(predictions, idx) ==
    [bbox |-> [k \in 1..Len(idx) |-> predictions.bbox[idx[k]]],
     extra_fields |->
        [f \in DOMAIN predictions.extra_fields |->
            [k \in 1..Len(idx) |-> predictions.extra_fields[f][idx[k]]]]]

---------------------------------------------------------------------------
(* select_top_predictions                                                  *)

\* Python subscript T[j] of a list or tensor: j in -len..len-1, a negative
\* j counts from the end; anything else raises IndexError
Subscriptable(T, j) == -Len(T) <= j /\ j < Len(T)
Subscript(T, j) == IF j >= 0 THEN T[j + 1] ELSE T[Len(T) + j + 1]

ExceedsOrEquals(score, threshold) == score >= threshold
\* scores[i] > thresholds
Exceeds(score, threshold) == score > threshold

\* the field the filter reads
FilterScores(predictions) ==
    IF has_field(predictions, "mask_scores")
    THEN get_field(predictions, "mask_scores")
    ELSE get_field(predictions, "scores")

\* the loop over enumerate(labels) raises at the first label whose
\* subscript label-1 is out of range
SelectRaises(predictions, T) ==
    \E i \in 1..NumBoxes(predictions) :
        ~Subscriptable(T, get_field(predictions, "labels")[i] - 1)

KeepSkippingFirst(predictions, T) ==
    LET scores == FilterScores(predictions)
        labels == get_field(predictions, "labels")
        Test(i) == i > 1 /\ Exceeds(scores[i], Subscript(T, labels[i] - 1))
    IN  Positions(NumBoxes(predictions), Test)
\* keep: the positions whose filter score exceeds the threshold of the label
Keep(predictions, T) ==
    LET scores == FilterScores(predictions)
        labels == get_field(predictions, "labels")
        Test(i) == Exceeds(scores[i], Subscript(T, labels[i] - 1))
    IN  Positions(NumBoxes(predictions), Test)

SortAscending(scores) ==
    {idx \in [1..Len(scores) -> 1..Len(scores)] :
        /\ Injective(idx)
        /\ \A k \in 1..(Len(scores) - 1) : scores[idx[k]] <= scores[idx[k + 1]]}
\* scores.sort(0, descending=True): torch.sort is called without stable=True,
\* so the order of equal elements is not fixed: every index permutation that
\* puts the values in non-increasing order is a possible idx
SortDescending(scores) ==
    {idx \in [1..Len(scores) -> 1..Len(scores)] :
        /\ Injective(idx)
        /\ \A k \in 1..(Len(scores) - 1) : scores[idx[k]] >= scores[idx[k + 1]]}

\* the BoxLists select_top_predictions can return (when it does not raise)
select_top_predictions(predictions, T) ==
    LET kept == Index(predictions, Keep(predictions, T))
    IN  {Index(kept, idx) : idx \in SortDescending(get_field(kept, "scores"))}

---------------------------------------------------------------------------
(* Images.  An image buffer (a numpy array) lives in the heap at an        *)
(* address; its content is the picture it started from (base) and the      *)
(* drawing operations applied to it since, in order (ink).  A drawing call *)
(* of cv2 that writes into its argument changes the buffer at that         *)
(* address; np.copy and cv2.addWeighted allocate a new one.                *)

Min(a, b) == IF a <= b THEN a ELSE b

Alloc(h, content) == Append(h, content)
Draw(h, image, ops) == [h EXCEPT ![image].ink = @ \o ops]

\* colormap(rgb=True).tolist(): the color table, NumColors colors
colormap == [k \in 1..NumColors |-> [color |-> k]]

\* zip(a, b) stops at the end of the shorter of the two
Zip(a, b) == Min(Len(a), Len(b))

\* overlay_boxes: one cv2.rectangle per pair of zip(boxes, colors), drawn
\* into image itself; the heap after the call (image is returned)
overlay_boxes(h, image, predictions) ==
    LET boxes == predictions.bbox
        colors == colormap
    IN  Draw(h, image,
             [k \in 1..Zip(boxes, colors) |->
                 [op |-> "rectangle", box |-> boxes[k], color |-> colors[k],
                  thickness |-> 1]])

\* np.where(mask == 1): the pixels of a mask that equal 1
Ones(mask) == {yx \in (1..MaskH) \X (1..MaskW) : mask[yx[1]][yx[2]] = 1}
\* cv2_util.findContours(thresh, ...): the outlines of the nonzero region,
\* given by the region they enclose (none for an all-zero mask)
findContours(mask) == {yx \in (1..MaskH) \X (1..MaskW) : mask[yx[1]][yx[2]] # 0}

\* overlay_mask: contours are filled on a copy of image, one per pair of
\* zip(masks, colors), and the copy is blended over image into a new buffer
\* [heap after the call, address of the composite, areas]
overlay_mask(h, image, predictions) ==
    LET masks == get_field(predictions, "mask")
        colors == colormap
        n == Zip(masks, colors)
        h1 == Alloc(h, h[image])
        mask_img == Len(h1)
        h2 == Draw(h1, mask_img,
                   [k \in 1..n |->
                       [op |-> "drawContours", contours |-> findContours(masks[k]),
                        color |-> colors[k], thickness |-> -1]])
        areas == [k \in 1..n |-> Cardinality(Ones(masks[k]))]
        h3 == Alloc(h2, [base |-> h2[image].base,
                         ink |-> Append(h2[image].ink,
                                        [op |-> "addWeighted", alpha |-> 45,
                                         over |-> h2[mask_img].ink])])
    IN  [heap |-> h3, image |-> Len(h3), areas |-> areas]

\* overlay_keypoints: vis_keypoints per detection, each drawing on a copy
\* and blending it over its argument into a new buffer
\* [heap after the call, address of the last blend]
RECURSIVE vis_keypoints_all(_, _, _, _)
vis_keypoints_all(h, image, kps, k) ==
    IF k > Len(kps) THEN [heap |-> h, image |-> image]
    ELSE LET h1 == Alloc(h, h[image])
             kp_mask == Len(h1)
             h2 == Draw(h1, kp_mask, <<[op |-> "keypoints", region |-> kps[k]]>>)
             h3 == Alloc(h2, [base |-> h2[image].base,
                              ink |-> Append(h2[image].ink,
                                             [op |-> "addWeighted", alpha |-> 70,
                                              over |-> h2[kp_mask].ink])])
         IN  vis_keypoints_all(h3, Len(h3), kps, k + 1)

overlay_keypoints(h, image, predictions) ==
    vis_keypoints_all(h, image, get_field(predictions, "keypoints"), 1)

CATEGORIES == <<"__background", "soft", "black", "scratch", "metal", "edge", "oil">>

\* "{}: {:.2f}".format(label, score), or the label alone
Text(label, score, display_score) ==
    IF display_score THEN [name |-> label, sep |-> ": ", score |-> score]
    ELSE [name |-> label]

\* overlay_class_names: per tuple of zip(boxes, scores, labels, colors) a
\* filled rectangle and the text, drawn into image itself (image is returned)
overlay_class_names(h, image, predictions, display_score) ==
    LET scores == get_field(predictions, "scores")
        labels == [k \in 1..NumBoxes(predictions) |->
                      CATEGORIES[get_field(predictions, "labels")[k] + 1]]
        n == Min(Zip(predictions.bbox, scores), Zip(labels, colormap))
        ops(k) == <<[op |-> "rectangle", box |-> predictions.bbox[k],
                     color |-> colormap[k], thickness |-> -1],
                    [op |-> "putText", box |-> predictions.bbox[k],
                     text |-> Text(labels[k], scores[k], display_score)]>>
    IN  Draw(h, image, [j \in 1..(2 * n) |-> ops((j + 1) \div 2)[2 - (j % 2)]])

---------------------------------------------------------------------------
(* create_mask_montage                                                     *)

ZeroTile(height, width) == [r \in 1..height |-> [c \in 1..width |-> 0]]

\* L.interpolate(masks.float(), scale_factor=1/masks_per_dim).byte(): nearest
\* neighbour, output pixel (r, c) is input pixel (r*masks_per_dim,
\* c*masks_per_dim), counting from 0
interpolate(masks) ==
    [k \in 1..Len(masks) |->
        [r \in 1..(MaskH \div masks_per_dim) |->
            [c \in 1..(MaskW \div masks_per_dim) |->
                masks[k][(r - 1) * masks_per_dim + 1][(c - 1) * masks_per_dim + 1]]]]

ReshapeColumnMajor(masks, y, x) == masks[x * masks_per_dim + y + 1]
\* masks.reshape(masks_per_dim, masks_per_dim, height, width)[y, x], y and x
\* counting from 0
Reshape(masks, y, x) == masks[y * masks_per_dim + x + 1]

\* cv2.applyColorMap(result, cv2.COLORMAP_JET): each gray value to its color
applyColorMap(result) ==
    [y \in 1..Len(result) |-> [x \in 1..Len(result[y]) |-> [jet |-> result[y][x]]]]

\* the tiled single-channel image, before the color map
MontageResult(predictions) ==
    LET small == interpolate(get_field(predictions, "mask"))
        height == MaskH \div masks_per_dim
        width == MaskW \div masks_per_dim
        max_masks == masks_per_dim * masks_per_dim
        first == SubSeq(small, 1, Min(Len(small), max_masks))
        masks == IF Len(first) < max_masks
                 THEN [k \in 1..max_masks |->
                          IF k <= Len(first) THEN first[k] ELSE ZeroTile(height, width)]
                 ELSE first
    IN  [Y \in 1..(masks_per_dim * height) |->
            [X \in 1..(masks_per_dim * width) |->
                Reshape(masks, (Y - 1) \div height, (X - 1) \div width)
                    [((Y - 1) % height) + 1][((X - 1) % width) + 1]]]

create_mask_montage(predictions) == applyColorMap(MontageResult(predictions))

---------------------------------------------------------------------------
(* The selector called on its own: SpecSelect.                             *)

\* DetectionSets handed to the selector: box k is the token k, so a
\* detection of the output is recognised by its box
MakeBoxList(labels, scores) ==
    [bbox |-> [k \in 1..Len(labels) |-> k],
     extra_fields |-> [f \in {"labels", "scores"} |->
                          IF f = "labels" THEN labels ELSE scores]]

WithMaskScores(predictions, mask_scores) ==
    [predictions EXCEPT !.extra_fields =
        [f \in DOMAIN predictions.extra_fields \cup {"mask_scores"} |->
            IF f = "mask_scores" THEN mask_scores
            ELSE predictions.extra_fields[f]]]

NoFlags ==
    [show_mask_heatmaps |-> FALSE, MASK_ON |-> FALSE, KEYPOINT_ON |-> FALSE,
     display_text |-> FALSE, display_score |-> FALSE]

NoCall == [op |-> "none"]
NoFrame == [i |-> 0]

InitSelect ==
    /\ confidence_threshold \in ThresholdTables
    /\ flags = NoFlags
    /\ pc = "idle"
    /\ call = NoCall
    /\ ret = <<>>
    /\ heap = <<>>
    /\ frame = NoFrame

\* the call select_top_predictions(predictions), whole: it raises IndexError
\* or returns one of the BoxLists the sort can produce
DoSelect(predictions, again) ==
    /\ call' = [op |-> "select_top_predictions", predictions |-> predictions,
                again |-> again]
    /\ IF SelectRaises(predictions, confidence_threshold)
       THEN /\ pc' = "raised"
            /\ ret' = "IndexError"
       ELSE /\ pc' = "returned"
            /\ ret' \in select_top_predictions(predictions, confidence_threshold)
    /\ UNCHANGED <<confidence_threshold, flags, heap, frame>>

\* a call on any DetectionSet of at most MaxDet detections, with or without
\* the field mask_scores
SelectTopPredictions ==
    /\ pc = "idle"
    /\ \E n \in 0..MaxDet :
       \E labels \in [1..n -> Labels], scores \in [1..n -> Scores] :
          \/ DoSelect(MakeBoxList(labels, scores), FALSE)
          \/ \E mask_scores \in [1..n -> Scores] :
                DoSelect(WithMaskScores(MakeBoxList(labels, scores), mask_scores),
                         FALSE)

\* the selector applied to its own output, with the same thresholds
SelectAgain ==
    /\ pc = "returned"
    /\ call.op = "select_top_predictions"
    /\ ~call.again
    /\ DoSelect(ret, TRUE)

NextSelect == SelectTopPredictions \/ SelectAgain

SpecSelect == InitSelect /\ [][NextSelect]_vars

---------------------------------------------------------------------------
(* run_on_opencv_image on a batch of images: Spec.                         *)

Flags ==
    [show_mask_heatmaps : BOOLEAN, MASK_ON : BOOLEAN, KEYPOINT_ON : BOOLEAN,
     display_text : BOOLEAN, display_score : BOOLEAN]

\* what the detector returns for one image: n detections with labels 1, 2,
\* 1, ... and scores that start at s and cycle through 1..MaxScore; the
\* field mask only if the model has a mask head (cfg.MODEL.MASK_ON), the
\* field keypoints only if it has a keypoint head (cfg.MODEL.KEYPOINT_ON)
DetectorBoxList(n, s) ==
    [bbox |-> [k \in 1..n |-> k],
     extra_fields |->
        [f \in {"labels", "scores"}
                \cup (IF flags.MASK_ON THEN {"mask"} ELSE {})
                \cup (IF flags.KEYPOINT_ON THEN {"keypoints"} ELSE {}) |->
            CASE f = "labels" -> [k \in 1..n |-> ((k - 1) % 2) + 1]
              [] f = "scores" -> [k \in 1..n |-> ((s + k) % MaxScore) + 1]
              [] f = "mask" -> [k \in 1..n |->
                                   [y \in 1..MaskH |-> [x \in 1..MaskW |-> k % 2]]]
              [] f = "keypoints" -> [k \in 1..n |-> [person |-> k]]]]

DetectorOutputs ==
    {DetectorBoxList(0, 1)}
    \cup {DetectorBoxList(n, s) : n \in 1..MaxDet, s \in Scores}

Init ==
    /\ confidence_threshold = <<0, 1>>
    /\ flags \in Flags
    /\ pc = "idle"
    /\ call = NoCall
    /\ ret = <<>>
    /\ heap = <<>>
    /\ frame = NoFrame

EmptyResultData ==
    [masks |-> <<>>, class_ids |-> <<>>, rois |-> <<>>, scores |-> <<>>]
EmptyResultDataWithArea ==
    [masks |-> <<>>, class_ids |-> <<>>, rois |-> <<>>, scores |-> <<>>,
     area |-> <<>>]

\* lines 148-159: compute_prediction, then the return of the empty case.
\* The caller's images are the buffers 1..B; the detector returns no
\* BoxList at all, or one per image.
RunOnOpencvImage ==
    /\ pc = "idle"
    /\ \E B \in 1..MaxBatch :
       \E predictions_ \in {<<>>} \cup [1..B -> DetectorOutputs] :
          /\ heap' = [k \in 1..B |-> [base |-> k, ink |-> <<>>]]
          /\ call' = [op |-> "run_on_opencv_image",
                      image |-> [k \in 1..B |-> k],
                      predictions_ |-> predictions_]
          /\ IF predictions_ = <<>>
             THEN /\ pc' = "returned"
                  /\ frame' = [i |-> 0, results |-> <<>>,
                               results_data |-> <<EmptyResultData>>, line |-> 159]
                  /\ ret' = <<<<>>, <<EmptyResultData>>, "zeros_id">>
             ELSE /\ pc' = "loop"
                  /\ frame' = [i |-> 0, results |-> <<>>, results_data |-> <<>>,
                               line |-> 160]
                  /\ ret' = <<>>
    /\ UNCHANGED <<confidence_threshold, flags>>

NoCopy(h, image) == [heap |-> h, image |-> image]
\* image[i-1].copy(): a new buffer with the content of image
\* [heap after the call, address of the copy]
Copy(h, image) == [heap |-> Alloc(h, h[image]), image |-> Len(h) + 1]

\* lines 167-181 for one image, after the selection: what the iteration does
\* (appends, returns, raises), its values, and the heap after it
RenderImage(h, image, top_predictions) ==
    LET copied == Copy(h, image)
        h0 == copied.heap
        result == copied.image
    IN  IF flags.show_mask_heatmaps
        THEN IF has_field(top_predictions, "mask")
             THEN [kind |-> "return", heap |-> h0,
                   value |-> create_mask_montage(top_predictions)]
             ELSE [kind |-> "raise", heap |-> h0, value |-> "KeyError"]
        ELSE
        LET h1 == overlay_boxes(h0, result, top_predictions)
            m == IF flags.MASK_ON
                 THEN overlay_mask(h1, result, top_predictions)
                 ELSE [heap |-> h1, image |-> result, areas |-> <<>>]
            kp == IF flags.KEYPOINT_ON
                  THEN overlay_keypoints(m.heap, m.image, top_predictions)
                  ELSE [heap |-> m.heap, image |-> m.image]
            h4 == IF flags.display_text
                  THEN overlay_class_names(kp.heap, kp.image, top_predictions,
                                           flags.display_score)
                  ELSE kp.heap
            h5 == overlay_class_names(h4, kp.image, top_predictions, TRUE)
        IN  IF ~has_field(top_predictions, "mask")
            THEN [kind |-> "raise", heap |-> h5, value |-> "KeyError"]
            ELSE [kind |-> "append", heap |-> h5, result |-> kp.image,
                  result_data |->
                     [masks |-> get_field(top_predictions, "mask"),
                      class_ids |-> get_field(top_predictions, "labels"),
                      rois |-> top_predictions.bbox,
                      scores |-> get_field(top_predictions, "scores"),
                      area |-> m.areas]]

\* lines 160-181: one iteration of the loop over predictions_
RunIteration ==
    /\ pc = "loop"
    /\ frame.i < Len(call.predictions_)
    /\ LET i == frame.i + 1
           predictions == call.predictions_[i]
       IN  IF NumBoxes(predictions) = 0
           THEN /\ pc' = "returned"
                /\ ret' = <<EmptyResultDataWithArea, call.image>>
                /\ frame' = [frame EXCEPT !.i = i, !.line = 163]
                /\ heap' = heap
           ELSE IF SelectRaises(predictions, confidence_threshold)
           THEN /\ pc' = "raised"
                /\ ret' = "IndexError"
                /\ frame' = [frame EXCEPT !.i = i, !.line = 165]
                /\ heap' = heap
           ELSE \E top_predictions \in
                       select_top_predictions(predictions, confidence_threshold) :
                  LET out == RenderImage(heap, call.image[i], top_predictions)
                  IN  /\ heap' = out.heap
                      /\ CASE out.kind = "return" ->
                                /\ pc' = "returned"
                                /\ ret' = out.value
                                /\ frame' = [frame EXCEPT !.i = i, !.line = 170]
                           [] out.kind = "raise" ->
                                /\ pc' = "raised"
                                /\ ret' = out.value
                                /\ frame' = [frame EXCEPT !.i = i, !.line = 179]
                           [] out.kind = "append" ->
                                /\ pc' = "loop"
                                /\ ret' = ret
                                /\ frame' = [frame EXCEPT
                                       !.i = i, !.line = 181,
                                       !.results = Append(@, out.result),
                                       !.results_data = Append(@, out.result_data)]
    /\ UNCHANGED <<confidence_threshold, flags, call>>

\* line 182: the return after the loop
RunReturn ==
    /\ pc = "loop"
    /\ frame.i = Len(call.predictions_)
    /\ pc' = "returned"
    /\ ret' = <<frame.results_data, frame.results, "zeros_id">>
    /\ frame' = [frame EXCEPT !.line = 182]
    /\ UNCHANGED <<confidence_threshold, flags, call, heap>>

Next == RunOnOpencvImage \/ RunIteration \/ RunReturn

Spec == Init /\ [][Next]_vars

---------------------------------------------------------------------------
(* Claims about the selector (checked under SpecSelect).                   *)

SelectReturned ==
    pc = "returned" /\ call.op = "select_top_predictions"

\* row k of a BoxList: its box and its value in every field
Row(predictions, k) ==
    [bbox |-> predictions.bbox[k],
     fields |-> [f \in DOMAIN predictions.extra_fields |->
                    predictions.extra_fields[f][k]]]
Rows(predictions) == {Row(predictions, k) : k \in 1..NumBoxes(predictions)}

HasThreshold(label) == label \in 1..Len(confidence_threshold)
AllHaveThreshold(predictions) ==
    \A i \in 1..NumBoxes(predictions) :
        HasThreshold(get_field(predictions, "labels")[i])

\* C1: select_top_predictions keeps exactly the detections whose score (the
\* score the filter reads) strictly exceeds the threshold of their class,
\* T[label-1]: a detection whose label has a threshold entry is in the output
\* iff its score is above it (equal is dropped), each one once, and every
\* output detection is a detection of the input.
SelectionRespectsThresholds ==
    SelectReturned =>
        LET p == call.predictions
            scores == FilterScores(p)
            labels == get_field(p, "labels")
        IN  /\ \A i \in 1..NumBoxes(p) :
                   HasThreshold(labels[i]) =>
                       (Row(p, i) \in Rows(ret)
                           <=> scores[i] > confidence_threshold[labels[i]])
            /\ Rows(ret) \subseteq Rows(p)
            /\ Injective(ret.bbox)

\* a call that dropped a detection whose score equals its threshold and kept
\* one above its threshold
SelectionRespectsThresholdsWitness ==
    /\ SelectReturned
    /\ LET p == call.predictions
           scores == FilterScores(p)
           labels == get_field(p, "labels")
       IN  \E i, j \in 1..NumBoxes(p) :
               /\ HasThreshold(labels[i]) /\ HasThreshold(labels[j])
               /\ scores[i] = confidence_threshold[labels[i]]
               /\ scores[j] > confidence_threshold[labels[j]]
               /\ Row(p, i) \notin Rows(ret)
               /\ Row(p, j) \in Rows(ret)

NonIncreasing(s) == \A k \in 1..(Len(s) - 1) : s[k] >= s[k + 1]

\* C2, as claimed: the output scores are non-increasing, and two surviving
\* detections with equal scores keep the relative order they had in the
\* input (box k is the k-th detection of the input of a first call).  Stated
\* for inputs in which every label has a threshold entry.
SelectionOrderedAndStable ==
    (SelectReturned /\ ~call.again /\ AllHaveThreshold(call.predictions)) =>
        /\ NonIncreasing(get_field(ret, "scores"))
        /\ \A a, b \in 1..NumBoxes(ret) :
               (a < b /\ get_field(ret, "scores")[a] = get_field(ret, "scores")[b])
                   => ret.bbox[a] < ret.bbox[b]

\* C2, amended: the output holds the surviving detections, each once, in an
\* order in which the raw scores (field scores) are non-increasing; the order
\* of equal scores is not fixed.
SelectionOrdered ==
    SelectReturned =>
        /\ NonIncreasing(get_field(ret, "scores"))
        /\ Rows(ret) = Rows(Index(call.predictions,
                                  Keep(call.predictions, confidence_threshold)))
        /\ Injective(ret.bbox)

\* two survivors that the sort had to exchange
SelectionOrderedWitness ==
    /\ SelectReturned /\ ~call.again
    /\ NumBoxes(ret) = 2
    /\ get_field(ret, "scores")[1] > get_field(ret, "scores")[2]
    /\ ret.bbox[1] > ret.bbox[2]

\* C3, as claimed: with the field mask_scores, the mask-quality score decides
\* the filter and orders the output: the output is non-increasing in
\* mask_scores.  Stated for inputs in which every label has a threshold entry.
MaskScoreFiltersAndOrders ==
    (SelectReturned /\ has_field(call.predictions, "mask_scores")
        /\ AllHaveThreshold(call.predictions)) =>
        /\ \A i \in 1..NumBoxes(call.predictions) :
               HasThreshold(get_field(call.predictions, "labels")[i]) =>
                   (Row(call.predictions, i) \in Rows(ret)
                       <=> get_field(call.predictions, "mask_scores")[i]
                             > confidence_threshold[get_field(call.predictions, "labels")[i]])
        /\ NonIncreasing(get_field(ret, "mask_scores"))

\* C4, as claimed: select(select(D, T), T) = select(D, T).
SelectionIdempotent ==
    (SelectReturned /\ call.again) => ret = call.predictions

\* C4, amended: a second selection with the same thresholds keeps every
\* detection of the first (the same rows, the same sequence of scores); the
\* two outputs are equal when the surviving scores are pairwise distinct.
SelectionIdempotentUpToTies ==
    (SelectReturned /\ call.again) =>
        /\ Rows(ret) = Rows(call.predictions)
        /\ NumBoxes(ret) = NumBoxes(call.predictions)
        /\ get_field(ret, "scores") = get_field(call.predictions, "scores")
        /\ Injective(get_field(ret, "scores")) => ret = call.predictions

\* a second selection of two survivors with distinct scores
SelectionIdempotentWitness ==
    /\ SelectReturned /\ call.again
    /\ NumBoxes(ret) = 2
    /\ get_field(ret, "scores")[1] # get_field(ret, "scores")[2]

\* C5, as claimed: a label L whose position L-1 is outside
\* 0..len(thresholds)-1 (the background label 0 included) fails the call.
MissingThresholdFails ==
    (call.op = "select_top_predictions"
        /\ \E i \in 1..NumBoxes(call.predictions) :
               get_field(call.predictions, "labels")[i] - 1
                   \notin 0..(Len(confidence_threshold) - 1))
    => pc = "raised"

---------------------------------------------------------------------------
(* The renderers and the montage called on their own: SpecRender.          *)

\* the masks tried: all zero, all one, the top-left pixel alone, the right half
Masks ==
    {[y \in 1..MaskH |-> [x \in 1..MaskW |-> v]] : v \in {0, 1}}
    \cup {[y \in 1..MaskH |-> [x \in 1..MaskW |-> IF y = 1 /\ x = 1 THEN 1 ELSE 0]],
          [y \in 1..MaskH |-> [x \in 1..MaskW |-> IF 2 * x > MaskW THEN 1 ELSE 0]]}

ClassLabels == {1, 2}

\* a BoxList with the fields the renderers read; box k is the token k
RenderBoxList(labels, scores, masks) ==
    [bbox |-> [k \in 1..Len(labels) |-> k],
     extra_fields |-> [f \in {"labels", "scores", "mask"} |->
                          CASE f = "labels" -> labels
                            [] f = "scores" -> scores
                            [] f = "mask" -> masks]]

DefaultLabels(n) == [k \in 1..n |-> ((k - 1) % 2) + 1]
DefaultScores(n) == [k \in 1..n |-> 1]
DefaultMasks(n) == [k \in 1..n |-> [y \in 1..MaskH |-> [x \in 1..MaskW |-> 1]]]

Picture == [base |-> "image", ink |-> <<>>]

InitRender ==
    /\ confidence_threshold = <<0, 1>>
    /\ flags = NoFlags
    /\ pc = "idle"
    /\ call = NoCall
    /\ ret = <<>>
    /\ heap = <<Picture>>
    /\ frame = NoFrame

OverlayBoxes ==
    /\ pc = "idle"
    /\ \E n \in 0..MaxInst : \E labels \in [1..n -> ClassLabels] :
          LET predictions == RenderBoxList(labels, DefaultScores(n), DefaultMasks(n))
          IN  /\ call' = [op |-> "overlay_boxes", image |-> 1,
                          predictions |-> predictions]
              /\ heap' = overlay_boxes(heap, 1, predictions)
              /\ ret' = 1
    /\ pc' = "returned"
    /\ UNCHANGED <<confidence_threshold, flags, frame>>

OverlayMask ==
    /\ pc = "idle"
    /\ \E n \in 0..MaxInst : \E masks \in [1..n -> Masks] :
          LET predictions == RenderBoxList(DefaultLabels(n), DefaultScores(n), masks)
              out == overlay_mask(heap, 1, predictions)
          IN  /\ call' = [op |-> "overlay_mask", image |-> 1,
                          predictions |-> predictions]
              /\ heap' = out.heap
              /\ ret' = <<out.image, out.areas>>
    /\ pc' = "returned"
    /\ UNCHANGED <<confidence_threshold, flags, frame>>

OverlayClassNames ==
    /\ pc = "idle"
    /\ \E n \in 0..MaxInst, display_score \in BOOLEAN :
       \E labels \in [1..n -> ClassLabels], scores \in [1..n -> Scores] :
          LET predictions == RenderBoxList(labels, scores, DefaultMasks(n))
          IN  /\ call' = [op |-> "overlay_class_names", image |-> 1,
                          predictions |-> predictions,
                          display_score |-> display_score]
              /\ heap' = overlay_class_names(heap, 1, predictions, display_score)
              /\ ret' = 1
    /\ pc' = "returned"
    /\ UNCHANGED <<confidence_threshold, flags, frame>>

CreateMaskMontage ==
    /\ pc = "idle"
    /\ \E n \in 0..MaxMasks : \E masks \in [1..n -> Masks] :
          LET predictions == RenderBoxList(DefaultLabels(n), DefaultScores(n), masks)
          IN  /\ call' = [op |-> "create_mask_montage", image |-> 1,
                          predictions |-> predictions]
              /\ ret' = create_mask_montage(predictions)
    /\ pc' = "returned"
    /\ UNCHANGED <<confidence_threshold, flags, heap, frame>>

NextRender == OverlayBoxes \/ OverlayMask \/ OverlayClassNames \/ CreateMaskMontage

SpecRender == InitRender /\ [][NextRender]_vars

---------------------------------------------------------------------------
(* Claims about the renderers and the montage (checked under SpecRender).  *)

\* C7, as claimed: overlay_mask returns one area per input detection, in
\* input order, for any number of detections, and entry k is the number of
\* pixels of mask k that equal 1.
OneAreaPerDetection ==
    (pc = "returned" /\ call.op = "overlay_mask") =>
        LET masks == get_field(call.predictions, "mask")
            areas == ret[2]
        IN  /\ Len(areas) = NumBoxes(call.predictions)
            /\ \A k \in 1..Len(areas) : areas[k] = Cardinality(Ones(masks[k]))

\* C8: the montage before the color map is masks_per_dim x masks_per_dim
\* tiles of the size of a downsampled mask; tile k (row k div masks_per_dim,
\* column k mod masks_per_dim) is downsampled mask k for k < min(n,
\* masks_per_dim^2) and all zero otherwise; masks beyond are ignored.
MontageTilesRowMajor ==
    (pc = "returned" /\ call.op = "create_mask_montage") =>
        LET small == interpolate(get_field(call.predictions, "mask"))
            n == Len(small)
            height == MaskH \div masks_per_dim
            width == MaskW \div masks_per_dim
        IN  /\ Len(ret) = masks_per_dim * height
            /\ \A Y \in 1..Len(ret) : Len(ret[Y]) = masks_per_dim * width
            /\ \A k \in 0..(masks_per_dim * masks_per_dim - 1) :
               \A r \in 1..height, c \in 1..width :
                   ret[(k \div masks_per_dim) * height + r]
                      [(k % masks_per_dim) * width + c]
                   = [jet |-> IF k < n THEN small[k + 1][r][c] ELSE 0]

\* three masks, the second and third different and not zero: the fourth tile
\* is the padding
MontageTilesRowMajorWitness ==
    /\ pc = "returned" /\ call.op = "create_mask_montage"
    /\ LET small == interpolate(get_field(call.predictions, "mask"))
       IN  /\ Len(small) = 3
           /\ small[2] # small[3]
           /\ small[2] # ZeroTile(MaskH \div masks_per_dim, MaskW \div masks_per_dim)
           /\ small[3] # ZeroTile(MaskH \div masks_per_dim, MaskW \div masks_per_dim)

\* C9, as claimed: overlay_boxes draws one rectangle per input detection, in
\* input order, the detection at position p (from 0) in the color
\* colorTable[p mod len(colorTable)].
OneRectanglePerDetection ==
    (pc = "returned" /\ call.op = "overlay_boxes") =>
        LET ink == heap[call.image].ink
            boxes == call.predictions.bbox
        IN  /\ Len(ink) = Len(boxes)
            /\ \A k \in 1..Len(ink) :
                   ink[k] = [op |-> "rectangle", box |-> boxes[k],
                             color |-> colormap[((k - 1) % Len(colormap)) + 1],
                             thickness |-> 1]

---------------------------------------------------------------------------
(* Claims about run_on_opencv_image (checked under Spec).                  *)

RunReturned == pc = "returned" /\ call.op = "run_on_opencv_image"

\* the images of the batch for which the detector returned no detection:
\* all of them when its whole output is empty
ImagesWithoutDetections ==
    IF call.predictions_ = <<>> THEN DOMAIN call.image
    ELSE {k \in DOMAIN call.image : NumBoxes(call.predictions_[k]) = 0}

\* C6, as claimed: when the detector returns no detection for an image (its
\* whole output empty, or one DetectionSet of the batch empty), the call
\* returns what it returns otherwise, (results_data, results, zeros_id), with
\* one structured result per image, and the one of each such image is exactly
\* {masks: [], class_ids: [], rois: [], scores: []}.  Stated for the calls
\* that return outside the montage mode.
EmptyImageGivesEmptyResult ==
    (RunReturned /\ ~flags.show_mask_heatmaps /\ ImagesWithoutDetections # {}) =>
        /\ Len(ret) = 3
        /\ ret[3] = "zeros_id"
        /\ Len(ret[1]) = Len(call.image)
        /\ \A k \in ImagesWithoutDetections : ret[1][k] = EmptyResultData

TextsOf(image) == SelectSeq(heap[image].ink, LAMBDA o : o.op = "putText")

\* C10, as claimed: in every rendered image the call returns, the label of
\* each selected detection is drawn at most once, as the category name alone
\* when display_score is off and as "name: score" only when it is on.
LabelDrawnOnceAsConfigured ==
    (RunReturned /\ frame.line = 182) =>
        \A j \in 1..Len(ret[2]) :
            LET texts == TextsOf(ret[2][j])
            IN  /\ \A a, b \in 1..Len(texts) : texts[a].box = texts[b].box => a = b
                /\ \A a \in 1..Len(texts) :
                       "score" \in DOMAIN texts[a].text <=> flags.display_score

\* C11: run_on_opencv_image never changes the caller's images: at every
\* point of the call, and after it has returned or raised, each input image
\* holds what it held before the call (nothing drawn on it), whatever the
\* flags; boxes, masks, keypoints and labels are drawn on copies.
CallerImagesUntouched ==
    call.op = "run_on_opencv_image" =>
        \A k \in 1..Len(call.image) :
            heap[call.image[k]] = [base |-> k, ink |-> <<>>]

\* a call that returned after drawing boxes, masks, keypoints and labels,
\* with display_text on, into the image it returns
CallerImagesUntouchedWitness ==
    /\ RunReturned /\ frame.line = 182
    /\ flags.MASK_ON /\ flags.KEYPOINT_ON /\ flags.display_text
    /\ Len(ret[2]) = Len(call.image)
    /\ \A j \in 1..Len(ret[2]) :
           /\ ret[2][j] \notin Range(call.image)
           /\ \E o \in Range(heap[ret[2][j]].ink) : o.op = "putText"
           /\ \E o \in Range(heap[ret[2][j]].ink) : o.op = "rectangle"

===========================================================================
